---- MODULE Spec2Model ----
(***************************************************************************)
(* Essay-grader report generation: the placeholder substitution engine of  *)
(* app/services/report_service.py (replace_text_in_xml_element and         *)
(* preencher_e_gerar_docx) and the Drive batch loop of app/ui/pages.py.    *)
(*                                                                         *)
(* Texts are TLA+ strings; positions are 0-based as in Python and are      *)
(* converted to the 1-based SubSeq only inside PySlice.                    *)
(***************************************************************************)
EXTENDS Integers, Sequences, FiniteSets, TLC

VARIABLES
    \* one call of replace_text_in_xml_element
    xml_in,         \* text of the <w:t> nodes of the element as passed in
    text_nodes,     \* current text of the <w:t> nodes of the element
    substitutions,  \* the map, as the sequence of its (key, value) items
    ki,             \* number of keys of the map already processed
    xpc,            \* position in replace_text_in_xml_element
    \* one call of preencher_e_gerar_docx
    dados,          \* the grading record
    template,       \* the template file on disk
    document,       \* the loaded document, Unbound before Document(...)
    substituicoes,  \* the map built from dados
    sec,            \* number of sections whose header and footer are done
    buffer,         \* the local BytesIO
    exc,            \* the exception caught by the handler, "none" if none
    result,         \* what the call returned
    fpc,            \* position in preencher_e_gerar_docx
    \* one call of BatchCorrectionPage._process_drive_correction
    batch_info,     \* the folders entered in the form
    input_id,       \* what validate_folder_id returned for the input folder
    output_id,      \* ... and for the output folder
    files,          \* the list returned by list_files
    idx,            \* number of files whose loop iteration is over
    file_content,   \* what download_file returned for the current file
    downloads,      \* per finished or current file, whether its download worked
    temp_files,     \* indices of the files whose temporary copy is on disk
    results,        \* the list of per-file status entries
    shown,          \* the message the page ends with
    bpc,            \* position in _process_drive_correction
    \* successive calls of preencher_e_gerar_docx
    refill,         \* whether another fill was performed before this one
    \* one call of substituir_em_paragrafo (services/report_service.py)
    par_in,         \* text of the runs of the paragraph as passed in
    runs,           \* current text of the runs of the paragraph
    texto_completo, \* paragrafo.text as read on entry
    par_subs,       \* the map, as the sequence of its (key, value) items
    pk,             \* number of keys of the map already processed
    ppc,            \* position in substituir_em_paragrafo
    \* one call of a validator of app/core/validators.py
    validator,      \* the validator called
    arg,            \* its argument
    outcome,        \* "True", the message of the exception, or "pending"
    \* one call of EnhancedAIService.analisar_redacao
    ai_initialized, \* self._initialized
    caminho_imagem, \* the image path, as whether a file exists there
    prompt,         \* the prompt passed in
    resultado,      \* the value parsed from the reply of the model
    resultado_padronizado, \* the record _processar_resultado works on
    ai_outcome,     \* what the call returned or raised
    apc,            \* position in analisar_redacao
    \* one walk over the paragraphs of a document, by the paragraph-level
    \* preencher_e_gerar_docx or by analisar_documento
    walker,         \* the function that walks
    walk_doc,       \* the file: its sections and paragraphs, or unreadable
    visited,        \* the paragraphs the loops have reached
    wsec,           \* number of sections whose loop iteration is over
    wpc             \* position in the function

xmlVars == <<xml_in, text_nodes, substitutions, ki, xpc>>

fillVars == <<dados, template, document, substituicoes, sec, buffer, exc,
              result, fpc>>

batchVars == <<batch_info, input_id, output_id, files, idx, file_content,
               downloads, temp_files, results, shown, bpc>>

parVars == <<par_in, runs, texto_completo, par_subs, pk, ppc>>

valVars == <<validator, arg, outcome>>

aiVars == <<ai_initialized, caminho_imagem, prompt, resultado,
            resultado_padronizado, ai_outcome, apc>>

\* what the calls of the three groups above leave alone
walkVars == <<walker, walk_doc, visited, wsec, wpc>>

otherVars == <<refill, parVars, valVars, aiVars, walkVars>>

vars == <<xmlVars, fillVars, batchVars, otherVars>>

(***************************************************************************)
(* Bounds and input sets                                                   *)
(***************************************************************************)
MaxNodes == 2
MaxKeys == 2

NodeTexts == {"", "a", "b", "aa", "ab", "ba", "bb"}
Keys == {"a", "b", "ab"}
Values == {"", "b", "cc"}

\* every sequence over S of length at most n
RECURSIVE SeqsUpTo(_, _)
SeqsUpTo(S, n) ==
    IF n = 0 THEN {<<>>}
    ELSE LET P == SeqsUpTo(S, n - 1)
         IN P \cup {Append(p, s) : p \in {q \in P : Len(q) = n - 1}, s \in S}

Min(a, b) == IF a < b THEN a ELSE b
Max(a, b) == IF a > b THEN a ELSE b

(***************************************************************************)
(* Python string primitives                                                *)
(***************************************************************************)
\* s[i:j] with Python's treatment of negative and out-of-range indices
PyIndex(n, i) == IF i < 0 THEN Max(n + i, 0) ELSE Min(i, n)

PySlice(s, i, j) ==
    LET lo == PyIndex(Len(s), i)
        hi == PyIndex(Len(s), j)
    IN IF lo >= hi THEN "" ELSE SubSeq(s, lo + 1, hi)

\* s[:k]
PySliceTo(s, k) == PySlice(s, 0, k)

\* s[k:]
PySliceFrom(s, k) == PySlice(s, k, Len(s))

\* does sub occur in s at 0-based position p
OccursAt(s, sub, p) ==
    /\ p >= 0
    /\ p + Len(sub) <= Len(s)
    /\ SubSeq(s, p + 1, p + Len(sub)) = sub

\* sub in s
Contains(s, sub) == \E p \in 0..Len(s) : OccursAt(s, sub, p)

\* s.find(sub): lowest position of sub in s, -1 when absent
PyFind(s, sub) ==
    IF Contains(s, sub)
    THEN CHOOSE p \in 0..Len(s) :
            /\ OccursAt(s, sub, p)
            /\ \A q \in 0..(p - 1) : ~OccursAt(s, sub, q)
    ELSE -1

\* [m.start() for m in re.finditer(re.escape(key), s)]: the non-overlapping
\* occurrences of a non-empty key, scanning left to right from position p
RECURSIVE FindIterFrom(_, _, _)
FindIterFrom(s, key, p) ==
    IF p + Len(key) > Len(s) THEN <<>>
    ELSE IF OccursAt(s, key, p)
         THEN <<p>> \o FindIterFrom(s, key, p + Len(key))
         ELSE FindIterFrom(s, key, p + 1)

FindIter(s, key) == FindIterFrom(s, key, 0)

\* s.replace(old, new) for a non-empty old
RECURSIVE PyReplaceFrom(_, _, _, _)
PyReplaceFrom(s, old, new, p) ==
    IF p >= Len(s) THEN ""
    ELSE IF OccursAt(s, old, p)
         THEN new \o PyReplaceFrom(s, old, new, p + Len(old))
         ELSE SubSeq(s, p + 1, p + 1) \o PyReplaceFrom(s, old, new, p + 1)

PyReplace(s, old, new) == PyReplaceFrom(s, old, new, 0)

(***************************************************************************)
(* replace_text_in_xml_element                                             *)
(***************************************************************************)
\* full_text_buffer: the concatenation of the text of all nodes
RECURSIVE full_text_buffer(_)
full_text_buffer(nodes) ==
    IF nodes = <<>> THEN ""
    ELSE Head(nodes) \o full_text_buffer(Tail(nodes))

\* current_pos_in_buffer when the loop reaches node i: the sum of the
\* current lengths of the nodes before it
RECURSIVE current_pos_in_buffer(_, _)
current_pos_in_buffer(nodes, i) ==
    IF i = 1 THEN 0
    ELSE current_pos_in_buffer(nodes, i - 1) + Len(nodes[i - 1])

\* indices of the nodes overlapping [start, end) by their current lengths
nodes_involved(nodes, start, end) ==
    {i \in 1..Len(nodes) :
        /\ current_pos_in_buffer(nodes, i) + Len(nodes[i]) > start
        /\ current_pos_in_buffer(nodes, i) < end}

SetMin(S) == CHOOSE x \in S : \A y \in S : x <= y
SetMax(S) == CHOOSE x \in S : \A y \in S : x >= y

\* start of a node as the code computes it: the first place where the
\* node's current text occurs in the buffer built before the match loop
node_start_in_buffer(fullbuf, text) ==
    IF text # "" THEN PyFind(fullbuf, text) ELSE 0

offset_in_first_node(fullbuf, nodes, first, start) ==
    start - node_start_in_buffer(fullbuf, nodes[first])

offset_in_last_node(fullbuf, nodes, last, end) ==
    end - node_start_in_buffer(fullbuf, nodes[last])

\* body of the loop over the matches, for the match at [start, start+len(key))
ReplaceMatch(fullbuf, nodes, key, value, start) ==
    LET end == start + Len(key)
        inv == nodes_involved(nodes, start, end)
    IN IF inv = {} THEN nodes
       ELSE
         LET first == SetMin(inv)
             last == SetMax(inv)
             before == IF nodes[first] # ""
                       THEN PySliceTo(nodes[first],
                                offset_in_first_node(fullbuf, nodes, first, start))
                       ELSE ""
             after == IF nodes[last] # ""
                      THEN PySliceFrom(nodes[last],
                                offset_in_last_node(fullbuf, nodes, last, end))
                      ELSE ""
         IN [i \in 1..Len(nodes) |->
                IF i = first THEN before \o value \o after
                ELSE IF first # last /\ i \in inv THEN ""
                ELSE nodes[i]]

\* the matches are taken from the last to the first; the buffer is the one
\* built before the loop
RECURSIVE ReplaceMatches(_, _, _, _, _)
ReplaceMatches(fullbuf, nodes, key, value, matches) ==
    IF matches = <<>> THEN nodes
    ELSE ReplaceMatches(fullbuf,
             ReplaceMatch(fullbuf, nodes, key, value, matches[Len(matches)]),
             key, value, SubSeq(matches, 1, Len(matches) - 1))

\* an iteration that takes the match from str.find without testing for -1
ReplaceKeyFindUnchecked(nodes, key, value) ==
    LET fullbuf == full_text_buffer(nodes)
    IN ReplaceMatch(fullbuf, nodes, key, value, PyFind(fullbuf, key))

\* one iteration of the loop over substitutions.items()
ReplaceKey(nodes, key, value) ==
    LET fullbuf == full_text_buffer(nodes)
    IN ReplaceMatches(fullbuf, nodes, key, value, FindIter(fullbuf, key))

\* the whole call, keys in map order (an element without text nodes has
\* nothing to rewrite)
RECURSIVE replace_text_in_xml_element(_, _)
replace_text_in_xml_element(nodes, subs) ==
    IF subs = <<>> \/ nodes = <<>> THEN nodes
    ELSE replace_text_in_xml_element(
             ReplaceKey(nodes, subs[1][1], subs[1][2]), Tail(subs))

\* plain str.replace of every key, in map order, on one string
RECURSIVE PlainReplaceAll(_, _)
PlainReplaceAll(s, subs) ==
    IF subs = <<>> THEN s
    ELSE PlainReplaceAll(PyReplace(s, subs[1][1], subs[1][2]), Tail(subs))

(***************************************************************************)
(* preencher_e_gerar_docx: the record, the template and the map            *)
(***************************************************************************)
MaxSections == 1

\* str(n) for an integer n
RECURSIVE PyStrNat(_)
PyStrNat(n) ==
    IF n < 10 THEN SubSeq("0123456789", n + 1, n + 1)
    ELSE PyStrNat(n \div 10) \o SubSeq("0123456789", (n % 10) + 1, (n % 10) + 1)

PyStrInt(n) == IF n < 0 THEN "-" \o PyStrNat(-n) ELSE PyStrNat(n)

\* d.get(k, default) for a dict held as a function on its present keys
Get(d, k, default) == IF k \in DOMAIN d THEN d[k] ELSE default

EmptyDict == [k \in {} |-> 0]

\* a JSON string and the JSON null, as the value of "analise"
JsonStr(s) == <<"str", s>>
JsonNull == <<"null">>
IsStr(v) == v[1] = "str"

\* the entries of analise_competencias the records are built from
C1Choices ==
    {[nota |-> 160, analise |-> JsonStr("**Boa** tese")],
     [nota |-> 0],
     [analise |-> JsonNull]}

C5Choices == {[nota |-> 200, analise |-> JsonStr("ok")]}

CompsChoices ==
    {EmptyDict}
    \cup {[k \in {"c1"} |-> c] : c \in C1Choices}
    \cup {[k \in {"c5"} |-> c] : c \in C5Choices}
    \cup {[k \in {"c1", "c5"} |-> IF k = "c1" THEN c ELSE d] :
             c \in C1Choices, d \in C5Choices}

Records ==
    {[analise_competencias |-> c] : c \in CompsChoices}
    \cup {[nome_aluno |-> "Ana", analise_competencias |-> c] : c \in CompsChoices}

\* the text nodes of one region (body with its tables, a header, a footer)
RegionChoices ==
    {<<>>,
     <<"__NC", "1__", "|", "{{NOTA_C1}}", "|", "__AC5__", "|", "{{ANALISE_C5}}">>,
     <<"{{NOME_ALUNO}}", "{{NOME_ALUNO}}">>}

SectionChoices == [header : RegionChoices, footer : RegionChoices]

Documents ==
    {[body |-> b, sections |-> ss] :
        b \in RegionChoices,
        ss \in {q \in SeqsUpTo(SectionChoices, MaxSections) : Len(q) >= 1}}

Templates == Documents \cup {[missing |-> TRUE], [corrupt |-> TRUE]}

IsDocument(t) == "body" \in DOMAIN t

\* a local that is not bound yet
Unbound == [kind |-> "unbound"]

\* Python's None, and the result of a call that has not returned
PyNone == [kind |-> "None"]
Pending == [kind |-> "pending"]

\* comps.get(f"c{i}", {}).get("nota", 0) and str(...) of it
NotaOf(comps, i) == PyStrInt(Get(Get(comps, "c" \o PyStrInt(i), EmptyDict), "nota", 0))

\* comps.get(f"c{i}", {}).get("analise", "")
AnaliseRaw(comps, i) ==
    Get(Get(comps, "c" \o PyStrInt(i), EmptyDict), "analise", JsonStr(""))

\* ....replace("**", "")
AnaliseOf(comps, i) == PyReplace(AnaliseRaw(comps, i)[2], "**", "")

\* .replace is called on a value that is not a string
BuildRaises(d) ==
    \E i \in 1..5 : ~IsStr(AnaliseRaw(Get(d, "analise_competencias", EmptyDict), i))

\* the loop with the legacy narrative taken without stripping the "**"
CompItemsLegacyRaw(comps, i) ==
    << <<"__NC" \o PyStrInt(i) \o "__", NotaOf(comps, i)>>,
       <<"__AC" \o PyStrInt(i) \o "__", AnaliseOf(comps, i)>>,
       <<"{{NOTA_C" \o PyStrInt(i) \o "}}", NotaOf(comps, i)>>,
       <<"{{ANALISE_C" \o PyStrInt(i) \o "}}", AnaliseRaw(comps, i)[2]>> >>

\* the four items the loop adds for competency i, in insertion order
CompItems(comps, i) ==
    << <<"__NC" \o PyStrInt(i) \o "__", NotaOf(comps, i)>>,
       <<"__AC" \o PyStrInt(i) \o "__", AnaliseOf(comps, i)>>,
       <<"{{NOTA_C" \o PyStrInt(i) \o "}}", NotaOf(comps, i)>>,
       <<"{{ANALISE_C" \o PyStrInt(i) \o "}}", AnaliseOf(comps, i)>> >>

\* the dict substituicoes, as its items in insertion order
BuildSubstituicoes(d) ==
    LET comps == Get(d, "analise_competencias", EmptyDict)
    IN << <<"{{NOME_ALUNO}}", Get(d, "nome_aluno", "Nao identificado")>>,
          <<"{{TEMA}}", Get(d, "tema_redacao", "")>>,
          <<"{{ANO}}", Get(d, "ano_turma", "")>>,
          <<"{{BIMESTRE}}", Get(d, "bimestre", "")>>,
          <<"{{NOTA_FINAL}}", PyStrInt(Get(d, "nota_final", 0))>>,
          <<"{{COMENTARIOS}}", Get(d, "comentarios_gerais", "")>>,
          <<"{{ALERTA_ORIGINALIDADE}}", Get(d, "alerta_originalidade", "")>> >>
       \o CompItems(comps, 1) \o CompItems(comps, 2) \o CompItems(comps, 3)
       \o CompItems(comps, 4) \o CompItems(comps, 5)

\* substituicoes[key]
Lookup(subs, key) ==
    LET i == CHOOSE j \in 1..Len(subs) : subs[j][1] = key IN subs[i][2]

HasKey(subs, key) == \E j \in 1..Len(subs) : subs[j][1] = key

\* number of bytes document.save writes: never zero
RECURSIVE TextSize(_)
TextSize(nodes) == IF nodes = <<>> THEN 0 ELSE Len(Head(nodes)) + TextSize(Tail(nodes))

SavedSize(doc) == 1 + TextSize(doc.body)

\* the variables of preencher_e_gerar_docx when no call is modelled
FillIdle ==
    /\ dados = EmptyDict
    /\ template = [missing |-> TRUE]
    /\ document = Unbound
    /\ substituicoes = <<>>
    /\ sec = 0
    /\ buffer = Unbound
    /\ exc = "none"
    /\ result = Pending
    /\ fpc = "idle"

\* the variables of replace_text_in_xml_element when no call is modelled
XmlIdle ==
    /\ xml_in = <<>>
    /\ text_nodes = <<>>
    /\ substitutions = <<>>
    /\ ki = 0
    /\ xpc = "idle"

\* the variables of _process_drive_correction when no call is modelled
BatchIdle ==
    /\ batch_info = [input_folder |-> "", output_folder |-> ""]
    /\ input_id = Unbound
    /\ output_id = Unbound
    /\ files = <<>>
    /\ idx = 0
    /\ file_content = Unbound
    /\ downloads = <<>>
    /\ temp_files = {}
    /\ results = <<>>
    /\ shown = "none"
    /\ bpc = "idle"

\* the variables of substituir_em_paragrafo when no call is modelled
ParIdle ==
    /\ par_in = <<>>
    /\ runs = <<>>
    /\ texto_completo = ""
    /\ par_subs = <<>>
    /\ pk = 0
    /\ ppc = "idle"

\* the variables of the validators when no call is modelled
ValIdle ==
    /\ validator = "none"
    /\ arg = [kind |-> "none"]
    /\ outcome = "idle"

\* the variables of analisar_redacao when no call is modelled
AiIdle ==
    /\ ai_initialized = FALSE
    /\ caminho_imagem = [exists |-> FALSE]
    /\ prompt = ""
    /\ resultado = Unbound
    /\ resultado_padronizado = Unbound
    /\ ai_outcome = Pending
    /\ apc = "idle"

\* the variables of the walk when no call is modelled
WalkIdle ==
    /\ walker = "none"
    /\ walk_doc = [unreadable |-> TRUE]
    /\ visited = {}
    /\ wsec = 0
    /\ wpc = "idle"

OtherIdle ==
    /\ refill = FALSE
    /\ AiIdle
    /\ WalkIdle
    /\ ParIdle
    /\ ValIdle

(***************************************************************************)
(* preencher_e_gerar_docx: the steps                                       *)
(***************************************************************************)
Init ==
    /\ dados \in Records
    /\ template \in Templates
    /\ document = Unbound
    /\ substituicoes = <<>>
    /\ sec = 0
    /\ buffer = Unbound
    /\ exc = "none"
    /\ result = Pending
    /\ fpc = "load"
    /\ XmlIdle
    /\ BatchIdle
    /\ OtherIdle

\* a handler that hands the exception's type to the caller
HandlerTyped(e) ==
    /\ exc' = e
    /\ result' = [kind |-> e]
    /\ fpc' = "returned"

\* except Exception as e: log and return None
Handler(e) ==
    /\ exc' = e
    /\ result' = PyNone
    /\ fpc' = "returned"

\* document = Document(caminho_template)
FillLoad ==
    /\ fpc = "load"
    /\ IF IsDocument(template)
       THEN /\ document' = template
            /\ fpc' = "build"
            /\ UNCHANGED <<exc, result>>
       ELSE /\ Handler(IF "missing" \in DOMAIN template
                       THEN "PackageNotFoundError" ELSE "BadZipFile")
            /\ UNCHANGED document
    /\ UNCHANGED <<dados, template, substituicoes, sec, buffer, xmlVars, batchVars,
                   otherVars>>

\* substituicoes = {...} and the loop for i in range(1, 6)
FillBuildMap ==
    /\ fpc = "build"
    /\ IF BuildRaises(dados)
       THEN /\ Handler("AttributeError")
            /\ UNCHANGED substituicoes
       ELSE /\ substituicoes' = BuildSubstituicoes(dados)
            /\ fpc' = "body"
            /\ UNCHANGED <<exc, result>>
    /\ UNCHANGED <<dados, template, document, sec, buffer, xmlVars, batchVars,
                   otherVars>>

\* replace_text_in_xml_element(document._element, substituicoes)
FillBody ==
    /\ fpc = "body"
    /\ document' = [document EXCEPT
                       !.body = replace_text_in_xml_element(@, substituicoes)]
    /\ fpc' = "header"
    /\ UNCHANGED <<dados, template, substituicoes, sec, buffer, exc, result,
                   xmlVars, batchVars,
                   otherVars>>

\* for section in document.sections: the header of the next section
FillHeader ==
    /\ fpc = "header"
    /\ sec < Len(document.sections)
    /\ document' = [document EXCEPT
                       !.sections[sec + 1].header =
                           replace_text_in_xml_element(@, substituicoes)]
    /\ fpc' = "footer"
    /\ UNCHANGED <<dados, template, substituicoes, sec, buffer, exc, result,
                   xmlVars, batchVars,
                   otherVars>>

\* ... and its footer
FillFooter ==
    /\ fpc = "footer"
    /\ document' = [document EXCEPT
                       !.sections[sec + 1].footer =
                           replace_text_in_xml_element(@, substituicoes)]
    /\ sec' = sec + 1
    /\ fpc' = "header"
    /\ UNCHANGED <<dados, template, substituicoes, buffer, exc, result,
                   xmlVars, batchVars,
                   otherVars>>

\* the buffer left where the save stopped writing
SeekSkipped(b) == b

\* what buffer.seek(0) leaves in the buffer
Seek0(b) == [b EXCEPT !.pos = 0]

\* a save that also writes the filled document over the template file
FillSaveToPath ==
    /\ fpc = "header"
    /\ sec = Len(document.sections)
    /\ template' = document
    /\ \/ /\ buffer' = Seek0([kind |-> "BytesIO", content |-> document,
                              complete |-> TRUE,
                              pos |-> SavedSize(document)])
          /\ fpc' = "return"
          /\ UNCHANGED <<exc, result>>
       \/ /\ buffer' = [kind |-> "BytesIO", content |-> document,
                        complete |-> FALSE,
                        pos |-> SavedSize(document) - 1]
          /\ Handler("OSError")
    /\ UNCHANGED <<dados, document, substituicoes, sec, xmlVars, batchVars,
                   otherVars>>

\* buffer = BytesIO(); document.save(buffer); buffer.seek(0)
\* the save either writes the whole document or raises part-way
FillSave ==
    /\ fpc = "header"
    /\ sec = Len(document.sections)
    /\ \/ /\ buffer' = Seek0([kind |-> "BytesIO", content |-> document,
                              complete |-> TRUE,
                              pos |-> SavedSize(document)])
          /\ fpc' = "return"
          /\ UNCHANGED <<exc, result>>
       \/ /\ buffer' = [kind |-> "BytesIO", content |-> document,
                        complete |-> FALSE,
                        pos |-> SavedSize(document) - 1]
          /\ Handler("OSError")
    /\ UNCHANGED <<dados, template, document, substituicoes, sec, xmlVars, batchVars,
                   otherVars>>

\* what the try block returns
Returned(b) == b

\* return buffer
FillReturn ==
    /\ fpc = "return"
    /\ result' = Returned(buffer)
    /\ fpc' = "returned"
    /\ UNCHANGED <<dados, template, document, substituicoes, sec, buffer, exc,
                   xmlVars, batchVars,
                   otherVars>>

Next == FillLoad \/ FillBuildMap \/ FillBody \/ FillHeader \/ FillFooter
        \/ FillSave \/ FillReturn

Spec == Init /\ [][Next]_vars

(***************************************************************************)
(* Successive calls of preencher_e_gerar_docx on the same template file    *)
(***************************************************************************)
\* the records the successive calls are made with
CallRecords ==
    {r \in Records :
        r.analise_competencias \in {EmptyDict, [k \in {"c1"} |-> [nota |-> 0]]}}

CallsInit ==
    /\ dados \in CallRecords
    /\ template \in Templates
    /\ document = Unbound
    /\ substituicoes = <<>>
    /\ sec = 0
    /\ buffer = Unbound
    /\ exc = "none"
    /\ result = Pending
    /\ fpc = "load"
    /\ refill = FALSE
    /\ AiIdle
    /\ WalkIdle
    /\ ParIdle
    /\ ValIdle
    /\ XmlIdle
    /\ BatchIdle

\* the caller calls the function again, with another record and the same
\* template path: the locals of the new call are fresh, the file is as the
\* earlier calls left it
FillAgain ==
    /\ fpc = "returned"
    /\ dados' \in CallRecords
    /\ document' = Unbound
    /\ substituicoes' = <<>>
    /\ sec' = 0
    /\ buffer' = Unbound
    /\ exc' = "none"
    /\ result' = Pending
    /\ fpc' = "load"
    /\ refill' = TRUE
    /\ UNCHANGED <<template, parVars, valVars, xmlVars, batchVars, aiVars, walkVars>>

CallsNext == Next \/ FillAgain

SpecCalls == CallsInit /\ [][CallsNext]_vars

(***************************************************************************)
(* Specification of one call of replace_text_in_xml_element                *)
(***************************************************************************)
\* a dict has unique keys
Maps ==
    {m \in SeqsUpTo(Keys \X Values, MaxKeys) :
        /\ Len(m) >= 1
        /\ \A i, j \in 1..Len(m) : i # j => m[i][1] # m[j][1]}

XmlInit ==
    /\ xml_in \in SeqsUpTo(NodeTexts, MaxNodes)
    /\ text_nodes = xml_in
    /\ substitutions \in Maps
    /\ ki = 0
    /\ xpc = "loop"
    /\ FillIdle
    /\ BatchIdle
    /\ OtherIdle

\* for key, value in substitutions.items(): ...
XmlReplaceKey ==
    /\ xpc = "loop"
    /\ ki < Len(substitutions)
    /\ text_nodes' = ReplaceKey(text_nodes, substitutions[ki + 1][1],
                                substitutions[ki + 1][2])
    /\ ki' = ki + 1
    /\ UNCHANGED <<xml_in, substitutions, xpc, fillVars, batchVars,
                   otherVars>>

\* the loop is exhausted and the function returns
XmlReturn ==
    /\ xpc = "loop"
    /\ ki = Len(substitutions)
    /\ xpc' = "done"
    /\ UNCHANGED <<xml_in, text_nodes, substitutions, ki, fillVars, batchVars,
                   otherVars>>

XmlNext == XmlReplaceKey \/ XmlReturn

SpecXml == XmlInit /\ [][XmlNext]_vars

(***************************************************************************)
(* Properties of replace_text_in_xml_element                               *)
(***************************************************************************)
Reverse(q) == [i \in 1..Len(q) |-> q[Len(q) + 1 - i]]

\* no key of the map occurs in s
NoKeyIn(s, subs) == \A i \in 1..Len(subs) : ~Contains(s, subs[i][1])

\* a is a subsequence of b: the characters of a occur in b in the same order
RECURSIVE IsSubsequence(_, _)
IsSubsequence(a, b) ==
    IF a = "" THEN TRUE
    ELSE IF b = "" THEN FALSE
    ELSE IF SubSeq(a, 1, 1) = SubSeq(b, 1, 1)
         THEN IsSubsequence(PySliceFrom(a, 1), PySliceFrom(b, 1))
         ELSE IsSubsequence(a, PySliceFrom(b, 1))

\* true start of node i in the buffer of nodes
TrueStart(nodes, i) == current_pos_in_buffer(nodes, i)

\* node i of nodes holds at least one character of an occurrence of key
Touched(nodes, key, i) ==
    LET m == FindIter(full_text_buffer(nodes), key)
    IN \E j \in 1..Len(m) :
          /\ TrueStart(nodes, i) < m[j] + Len(key)
          /\ TrueStart(nodes, i) + Len(nodes[i]) > m[j]

\* the key occurs in the concatenation and in no single node
Straddles(nodes, key) ==
    /\ Contains(full_text_buffer(nodes), key)
    /\ \A i \in 1..Len(nodes) : ~Contains(nodes[i], key)

FirstKey == substitutions[1][1]
FirstValue == substitutions[1][2]

\* C1: after the call no key of the map occurs in the concatenated text of the
\* element. Stated for the inputs on which a plain replace-all of the keys,
\* in map order, leaves no key either, so that a remaining key is due to the
\* rewriting of the nodes and not to a value that brings a key back.
C1_NoKeyRemains ==
    (xpc = "done"
     /\ NoKeyIn(PlainReplaceAll(full_text_buffer(xml_in), substitutions),
                substitutions))
    => NoKeyIn(full_text_buffer(text_nodes), substitutions)

\* C2: when a key occurs in the concatenated text but in no single node,
\* processing that key leaves the concatenated text with every occurrence
\* replaced by the value and nothing else changed.
C2_SplitRunReplaced ==
    (ki = 1 /\ Straddles(xml_in, FirstKey))
    => full_text_buffer(text_nodes)
         = PyReplace(full_text_buffer(xml_in), FirstKey, FirstValue)

\* C3: processing a key keeps, in order, every character that is outside the
\* occurrences of the key, and leaves a node that no occurrence touches with
\* exactly the text it had.
C3_NonInterference ==
    ki = 1
    => /\ IsSubsequence(PyReplace(full_text_buffer(xml_in), FirstKey, ""),
                        full_text_buffer(text_nodes))
       /\ \A i \in 1..Len(xml_in) :
             ~Touched(xml_in, FirstKey, i) => text_nodes[i] = xml_in[i]

\* no value of the map contains the text of another key of the map
NoValueContainsOtherKey(subs) ==
    \A i, j \in 1..Len(subs) : i # j => ~Contains(subs[i][2], subs[j][1])

\* no key of the map contains another key of the map
KeysNotNested(subs) ==
    \A i, j \in 1..Len(subs) : i # j => ~Contains(subs[i][1], subs[j][1])

\* C5: for a map of two keys none of whose values contains the other key, the
\* final text is the one obtained with the keys taken in the other order.
\* Stated for keys that do not nest and for the inputs on which plain
\* replacement is itself independent of the order.
C5_OrderIndependent ==
    (/\ xpc = "done"
     /\ Len(substitutions) = 2
     /\ NoValueContainsOtherKey(substitutions)
     /\ KeysNotNested(substitutions)
     /\ PlainReplaceAll(full_text_buffer(xml_in), substitutions)
          = PlainReplaceAll(full_text_buffer(xml_in), Reverse(substitutions)))
    => full_text_buffer(text_nodes)
         = full_text_buffer(
               replace_text_in_xml_element(xml_in, Reverse(substitutions)))

\* C10: the concatenated text after the call is the concatenated text before
\* the call with a plain replace-all applied for every key in map order.
C10_DeepEqualsPlain ==
    xpc = "done"
    => full_text_buffer(text_nodes)
         = PlainReplaceAll(full_text_buffer(xml_in), substitutions)

(***************************************************************************)
(* BatchCorrectionPage._process_drive_correction                           *)
(***************************************************************************)
MaxFiles == 3

FileNames == {"r1.jpg", "r2.jpg", "r3.jpg"}

\* what the user may have typed in a folder field (the form requires the
\* fields to be non-empty)
FolderInputs ==
    {"1AbC-_9",
     "https://drive.google.com/drive/folders/1AbC-_9",
     "https://drive.google.com/drive/my-drive",
     "pasta 1",
     " "}

\* the characters of the class [a-zA-Z0-9-_]
IdChars == "abcdefghijklmnopqrstuvwxyzABCDEFGHIJKLMNOPQRSTUVWXYZ0123456789-_"

IsIdChar(c) == Contains(IdChars, c)

\* s.strip(), for the blank characters the inputs contain
RECURSIVE LStrip(_)
LStrip(s) ==
    IF s # "" /\ SubSeq(s, 1, 1) = " " THEN LStrip(PySliceFrom(s, 1)) ELSE s

RECURSIVE RStrip(_)
RStrip(s) ==
    IF s # "" /\ SubSeq(s, Len(s), Len(s)) = " "
    THEN RStrip(PySliceTo(s, Len(s) - 1)) ELSE s

PyStrip(s) == LStrip(RStrip(s))

\* re.search(r"folders/([a-zA-Z0-9-_]+)", s) finds a match
HasFolderId(s) ==
    \E p \in 0..Len(s) :
        /\ OccursAt(s, "folders/", p)
        /\ p + 8 < Len(s)
        /\ IsIdChar(SubSeq(s, p + 9, p + 9))

\* re.match(r'^[a-zA-Z0-9-_]+$', s)
IsBareId(s) ==
    /\ s # ""
    /\ \A p \in 1..Len(s) : IsIdChar(SubSeq(s, p, p))

\* the messages of the ValidationException of validate_folder_id (written
\* without the accents of the source)
FolderEmptyMsg == "O ID da pasta nao pode estar vazio"
FolderUrlMsg == "URL da pasta do Drive invalida"
FolderIdMsg == "ID da pasta do Drive invalido"

\* a validate_folder_id that takes every input with a slash for a URL
folder_id_outcome_slash(folder_id) ==
    IF folder_id = "" \/ PyStrip(folder_id) = "" THEN FolderEmptyMsg
    ELSE LET stripped == PyStrip(folder_id)
         IN IF Contains(stripped, "/")
            THEN (IF HasFolderId(stripped) THEN "True" ELSE FolderUrlMsg)
            ELSE IF IsBareId(stripped) THEN "True" ELSE FolderIdMsg

\* DriveValidator.validate_folder_id: "True" when it returns, the message of
\* the ValidationException when it raises
folder_id_outcome(folder_id) ==
    IF folder_id = "" \/ PyStrip(folder_id) = "" THEN FolderEmptyMsg
    ELSE LET stripped == PyStrip(folder_id)
         IN IF Contains(stripped, "drive.google.com")
            THEN (IF HasFolderId(stripped) THEN "True" ELSE FolderUrlMsg)
            ELSE IF IsBareId(stripped) THEN "True" ELSE FolderIdMsg

\* DriveValidator.validate_folder_id: "raise" or the value returned
validate_folder_id(folder_id) ==
    IF folder_id_outcome(folder_id) = "True" THEN "True" ELSE "raise"

\* the lists list_files may return: files of the folder, each once
FileLists ==
    {f \in SeqsUpTo(FileNames, MaxFiles) :
        \A i, j \in 1..Len(f) : i # j => f[i] # f[j]}

\* the status texts, without the emoji that starts each of them in the source
StatusSuccess == "Sucesso"

\* f"Erro: {str(e)}"
StatusError(msg) == "Erro: " \o msg

\* the entry the except branch of the loop appends
ErrorEntry(name, msg) == [file |-> name, status |-> StatusError(msg), output |-> "None"]

BatchInit ==
    /\ batch_info \in [input_folder : FolderInputs, output_folder : FolderInputs]
    /\ input_id = Unbound
    /\ output_id = Unbound
    /\ files = <<>>
    /\ idx = 0
    /\ file_content = Unbound
    /\ downloads = <<>>
    /\ temp_files = {}
    /\ results = <<>>
    /\ shown = "none"
    /\ bpc = "validate"
    /\ XmlIdle
    /\ FillIdle
    /\ OtherIdle

\* input_id = ...validate_folder_id(...); output_id = ...; a raise goes to the
\* outer handler
BatchValidate ==
    /\ bpc = "validate"
    /\ LET vin == validate_folder_id(batch_info.input_folder)
           vout == validate_folder_id(batch_info.output_folder)
       IN IF vin = "raise" \/ vout = "raise"
          THEN /\ shown' = "erro na correcao em lote"
               /\ bpc' = "done"
               /\ input_id' = IF vin = "raise" THEN Unbound
                              ELSE [kind |-> "bool", value |-> vin]
               /\ UNCHANGED output_id
          ELSE /\ input_id' = [kind |-> "bool", value |-> vin]
               /\ output_id' = [kind |-> "bool", value |-> vout]
               /\ bpc' = "service"
               /\ UNCHANGED shown
    /\ UNCHANGED <<batch_info, files, idx, file_content, downloads, temp_files,
                   results, xmlVars, fillVars, otherVars>>

\* drive_service = GoogleDriveService(): authentication works or raises
BatchService ==
    /\ bpc = "service"
    /\ \/ /\ bpc' = "list"
          /\ UNCHANGED shown
       \/ /\ shown' = "erro na correcao em lote"
          /\ bpc' = "done"
    /\ UNCHANGED <<batch_info, input_id, output_id, files, idx, file_content,
                   downloads, temp_files, results, xmlVars, fillVars, otherVars>>

\* files = drive_service.list_files(...); if not files: return
BatchList ==
    /\ bpc = "list"
    /\ \E f \in FileLists :
          /\ files' = f
          /\ IF f = <<>>
             THEN /\ shown' = "nenhum arquivo"
                  /\ bpc' = "done"
             ELSE /\ bpc' = "download"
                  /\ UNCHANGED shown
    /\ UNCHANGED <<batch_info, input_id, output_id, idx, file_content,
                   downloads, temp_files, results, xmlVars, fillVars, otherVars>>

\* where the loop goes after the iteration of file idx + 1
AfterFile == IF idx + 1 < Len(files) THEN "download" ELSE "final"

\* file_content = drive_service.download_file(file_info['id']): the bytes,
\* or None when the download failed
BatchDownload ==
    /\ bpc = "download"
    /\ \E ok \in BOOLEAN :
          /\ file_content' = IF ok THEN [kind |-> "bytes"] ELSE PyNone
          /\ downloads' = Append(downloads, ok)
    /\ bpc' = "write"
    /\ UNCHANGED <<batch_info, input_id, output_id, files, idx, temp_files,
                   results, shown, xmlVars, fillVars, otherVars>>

\* with tempfile.NamedTemporaryFile(delete=False, ...): tmp_file.write(...)
\* the file is created on entry; write(None) raises TypeError
BatchWriteTemp ==
    /\ bpc = "write"
    /\ temp_files' = temp_files \cup {idx + 1}
    /\ IF file_content = PyNone
       THEN /\ results' = Append(results,
                   ErrorEntry(files[idx + 1],
                       "a bytes-like object is required, not 'NoneType'"))
            /\ idx' = idx + 1
            /\ bpc' = AfterFile
       ELSE /\ bpc' = "analyse"
            /\ UNCHANGED <<results, idx>>
    /\ UNCHANGED <<batch_info, input_id, output_id, files, file_content,
                   downloads, shown, xmlVars, fillVars, otherVars>>

\* an iteration in which the failure is recorded and the code after the
\* analysis still runs, recording the file a second time
BatchAnalyseTwice ==
    /\ bpc = "analyse"
    /\ results' = results \o
           <<ErrorEntry(files[idx + 1],
                 "'BatchCorrectionPage' object has no attribute 'prompt_mestre'"),
             [file |-> files[idx + 1], status |-> "Falha na analise",
              output |-> "None"]>>
    /\ idx' = idx + 1
    /\ bpc' = AfterFile
    /\ UNCHANGED <<batch_info, input_id, output_id, files, file_content,
                   downloads, temp_files, shown, xmlVars, fillVars, otherVars>>

\* resultado = ai_service.analisar_redacao(temp_path, self.prompt_mestre, ...)
\* BatchCorrectionPage never sets prompt_mestre: evaluating the argument
\* raises AttributeError, and the except branch records it
BatchAnalyse ==
    /\ bpc = "analyse"
    /\ results' = Append(results,
           ErrorEntry(files[idx + 1],
               "'BatchCorrectionPage' object has no attribute 'prompt_mestre'"))
    /\ idx' = idx + 1
    /\ bpc' = AfterFile
    /\ UNCHANGED <<batch_info, input_id, output_id, files, file_content,
                   downloads, temp_files, shown, xmlVars, fillVars, otherVars>>

\* number of entries whose status contains 'Sucesso'
RECURSIVE SuccessCount(_)
SuccessCount(rs) ==
    IF rs = <<>> THEN 0
    ELSE (IF Contains(Head(rs).status, "Sucesso") THEN 1 ELSE 0)
         + SuccessCount(Tail(rs))

\* Etapa 3: the success message and the table of results
BatchFinal ==
    /\ bpc = "final"
    /\ shown' = "concluida: " \o PyStrInt(SuccessCount(results))
    /\ bpc' = "done"
    /\ UNCHANGED <<batch_info, input_id, output_id, files, idx, file_content,
                   downloads, temp_files, results, xmlVars, fillVars, otherVars>>

BatchNext == BatchValidate \/ BatchService \/ BatchList \/ BatchDownload
             \/ BatchWriteTemp \/ BatchAnalyse \/ BatchFinal

SpecBatch == BatchInit /\ [][BatchNext]_vars

\* the run reached the final results step
ReachedResults == bpc = "done" /\ Len(files) > 0

Regions(doc) ==
    {doc.body}
    \cup {doc.sections[i].header : i \in 1..Len(doc.sections)}
    \cup {doc.sections[i].footer : i \in 1..Len(doc.sections)}

\* the document obtained by substituting every region of doc
Substituted(doc, subs) ==
    [body |-> replace_text_in_xml_element(doc.body, subs),
     sections |->
        [i \in 1..Len(doc.sections) |->
            [header |-> replace_text_in_xml_element(doc.sections[i].header, subs),
             footer |-> replace_text_in_xml_element(doc.sections[i].footer, subs)]]]

\* C4: when a document whose body holds no placeholder (its tokens are all in
\* headers and footers) is returned, no token of the map is left in the body,
\* in the header or in the footer of any section.
C4_MultiRegionCoverage ==
    (/\ fpc = "returned"
     /\ result.kind = "BytesIO"
     /\ NoKeyIn(full_text_buffer(template.body), substituicoes))
    => \A r \in Regions(result.content) :
          NoKeyIn(full_text_buffer(r), substituicoes)

\* C7: a failure while loading, substituting or saving returns None and no
\* buffer; a buffer is returned only when the save completed on the document
\* with every region substituted, and it is positioned at offset 0.
C7_AllOrNothing ==
    fpc = "returned"
    => /\ exc # "none" => result = PyNone
       /\ result.kind = "BytesIO"
            => /\ exc = "none"
               /\ result.complete
               /\ result.pos = 0
               /\ result.content = Substituted(template, substituicoes)

C7_Witness ==
    /\ fpc = "returned"
    /\ result.kind = "BytesIO"
    /\ result.content # template

\* C8 as claimed: a load failure is reported as a DocumentLoadError and a
\* save failure as a DocumentSaveError.
C8_TypedFailures ==
    fpc = "returned"
    => /\ exc \in {"PackageNotFoundError", "BadZipFile"}
            => result.kind = "DocumentLoadError"
       /\ exc = "OSError" => result.kind = "DocumentSaveError"

\* C8 as amended: whichever step failed (load, map building, save), the call
\* returns the same value None and raises nothing, so the result does not
\* tell the failure kinds apart.
C8_FailuresReturnNone ==
    fpc = "returned"
    => /\ result.kind \in {"None", "BytesIO"}
       /\ exc \in {"PackageNotFoundError", "BadZipFile", "AttributeError",
                   "OSError"} => result.kind = "None"

C8_Witness ==
    /\ fpc = "returned"
    /\ exc = "OSError"
    /\ result = PyNone
    /\ buffer.kind = "BytesIO"

MaxRuns == 2

RunTexts == {"", "x", "{{", "a}}", "{{a}}", "{{b}}", "{{a}}{{b}}"}
Placeholders == {"{{a}}", "{{b}}"}
Valores == {"", "x", "{{a}}", "{{b}}"}

\* a dict has unique keys
ParMaps ==
    {m \in SeqsUpTo(Placeholders \X Valores, MaxKeys) :
        /\ Len(m) >= 1
        /\ \A i, j \in 1..Len(m) : i # j => m[i][1] # m[j][1]}

\* paragrafo.text: the texts of the runs, concatenated
ParagraphText(rs) == full_text_buffer(rs)

\* for run in paragrafo.runs: if placeholder in run.text: run.text = ...
InRunReplace(rs, placeholder, valor) ==
    [i \in 1..Len(rs) |->
        IF Contains(rs[i], placeholder)
        THEN PyReplace(rs[i], placeholder, valor)
        ELSE rs[i]]

\* the same, followed by a rebuild of the paragraph when the placeholder is
\* still in its text: everything in the first run, the other runs blank
InRunThenRebuild(rs, placeholder, valor) ==
    LET r == InRunReplace(rs, placeholder, valor)
    IN IF Contains(ParagraphText(r), placeholder)
       THEN [i \in 1..Len(r) |->
                IF i = 1 THEN PyReplace(ParagraphText(r), placeholder, valor)
                ELSE ""]
       ELSE r

\* the body of the loop over substituicoes.items(): texto is the text read on
\* entry, which the loop never reads again
ProcessPlaceholder(rs, texto, placeholder, valor) ==
    IF Contains(texto, placeholder)
    THEN InRunReplace(rs, placeholder, valor)
    ELSE rs

\* the loop over substituicoes.items()
RECURSIVE ProcessPlaceholders(_, _, _)
ProcessPlaceholders(rs, texto, subs) ==
    IF subs = <<>> THEN rs
    ELSE ProcessPlaceholders(
             ProcessPlaceholder(rs, texto, subs[1][1], subs[1][2]),
             texto, Tail(subs))

\* substituir_em_paragrafo(paragrafo, substituicoes): the runs it leaves
substituir_em_paragrafo(rs, subs) ==
    IF Contains(ParagraphText(rs), "{{")
    THEN ProcessPlaceholders(rs, ParagraphText(rs), subs)
    ELSE rs

ParInit ==
    /\ par_in \in SeqsUpTo(RunTexts, MaxRuns)
    /\ runs = par_in
    /\ texto_completo = ""
    /\ par_subs \in ParMaps
    /\ pk = 0
    /\ ppc = "entry"
    /\ refill = FALSE
    /\ AiIdle
    /\ WalkIdle
    /\ ValIdle
    /\ XmlIdle
    /\ FillIdle
    /\ BatchIdle

\* texto_completo = paragrafo.text; if "{{" not in texto_completo: return
ParEntry ==
    /\ ppc = "entry"
    /\ texto_completo' = ParagraphText(runs)
    /\ ppc' = IF Contains(ParagraphText(runs), "{{") THEN "loop" ELSE "done"
    /\ UNCHANGED <<par_in, runs, par_subs, pk, refill, valVars, xmlVars,
                   fillVars, batchVars, aiVars, walkVars>>

\* a loop that goes over the map again while one of its placeholders is in
\* a run
ParReplaceKeyRescan ==
    /\ ppc = "loop"
    /\ pk < Len(par_subs)
    /\ runs' = InRunReplace(runs, par_subs[pk + 1][1], par_subs[pk + 1][2])
    /\ pk' = IF /\ pk + 1 = Len(par_subs)
                /\ \E i \in 1..Len(par_subs) : \E j \in 1..Len(runs) :
                      Contains(runs'[j], par_subs[i][1])
             THEN 0 ELSE pk + 1
    /\ UNCHANGED <<par_in, texto_completo, par_subs, ppc, refill, valVars,
                   xmlVars, fillVars, batchVars, aiVars, walkVars>>

\* for placeholder, valor in substituicoes.items(): ...
ParReplaceKey ==
    /\ ppc = "loop"
    /\ pk < Len(par_subs)
    /\ runs' = ProcessPlaceholder(runs, texto_completo, par_subs[pk + 1][1],
                                  par_subs[pk + 1][2])
    /\ pk' = pk + 1
    /\ UNCHANGED <<par_in, texto_completo, par_subs, ppc, refill, valVars,
                   xmlVars, fillVars, batchVars, aiVars, walkVars>>

\* the loop is exhausted and the function returns
ParReturn ==
    /\ ppc = "loop"
    /\ pk = Len(par_subs)
    /\ ppc' = "done"
    /\ UNCHANGED <<par_in, runs, texto_completo, par_subs, pk, refill,
                   valVars, xmlVars, fillVars, batchVars, aiVars, walkVars>>

ParNext == ParEntry \/ ParReplaceKey \/ ParReturn

SpecPar == ParInit /\ [][ParNext]_vars

\* C11: when the only placeholder of the map is in the text of the paragraph
\* but split across runs (no single run holds it), the call leaves the first
\* run with the concatenated text in which the placeholder is replaced and
\* every other run blank.
C11_ParagraphFallback ==
    (/\ ppc = "done"
     /\ Len(par_subs) = 1
     /\ Straddles(par_in, par_subs[1][1]))
    => runs = InRunThenRebuild(par_in, par_subs[1][1], par_subs[1][2])

\* the runs after the first placeholder of the map was processed
AfterFirstPlaceholder ==
    ProcessPlaceholder(par_in, texto_completo, par_subs[1][1], par_subs[1][2])

RECURSIVE Rep(_, _)
Rep(s, n) ==
    IF n = 0 THEN ""
    ELSE LET half == Rep(s, n \div 2)
         IN IF n % 2 = 0 THEN half \o half ELSE half \o half \o s

(* TextValidator.validate_theme *)
ThemeEmptyMsg == "O tema da redacao nao pode estar vazio"
ThemeShortMsg == "O tema deve ter pelo menos 5 caracteres"
ThemeLongMsg == "O tema deve ter no maximo 200 caracteres"

\* a validate_theme whose upper limit is exclusive
validate_theme_exclusive(theme) ==
    IF theme = "" \/ PyStrip(theme) = "" THEN ThemeEmptyMsg
    ELSE LET stripped == PyStrip(theme)
         IN IF Len(stripped) < 5 THEN ThemeShortMsg
            ELSE IF Len(stripped) >= 200 THEN ThemeLongMsg
            ELSE "True"

validate_theme(theme) ==
    IF theme = "" \/ PyStrip(theme) = "" THEN ThemeEmptyMsg
    ELSE LET stripped == PyStrip(theme)
         IN IF Len(stripped) < 5 THEN ThemeShortMsg
            ELSE IF Len(stripped) > 200 THEN ThemeLongMsg
            ELSE "True"

\* the lengths of the themes tried, around the two limits
ThemeLengths == {0, 1, 4, 5, 6, 199, 200, 201}

ThemeInputs ==
    {pre \o Rep("a", n) \o post :
        n \in ThemeLengths, pre \in {"", " "}, post \in {"", "  "}}
    \cup {"Tema valido para redacao", "abc", "a b c", "a   b"}

(* TextValidator.validate_student_name: a name is the sequence of the code *)
(* points of its characters                                                *)
NameEmptyMsg == "O nome do aluno nao pode estar vazio"
NameShortMsg == "O nome deve ter pelo menos 3 caracteres"
NameLongMsg == "O nome deve ter no maximo 100 caracteres"
NameCharsMsg == "O nome deve conter apenas letras e espacos"

\* the characters below U+0100 that str.strip() removes and \s matches
Whitespace == {9, 10, 11, 12, 13, 28, 29, 30, 31, 32, 133, 160}

\* name.strip()
RECURSIVE StripLeft(_)
StripLeft(cps) ==
    IF cps # <<>> /\ Head(cps) \in Whitespace THEN StripLeft(Tail(cps)) ELSE cps

RECURSIVE StripRight(_)
StripRight(cps) ==
    IF cps # <<>> /\ cps[Len(cps)] \in Whitespace
    THEN StripRight(SubSeq(cps, 1, Len(cps) - 1)) ELSE cps

StripName(cps) == StripLeft(StripRight(cps))

\* the class [a-zA-Z\u00C0-\u00FF\s]: a-z, A-Z, U+00C0 to U+00FF, whitespace
InNameClass(cp) ==
    \/ cp \in 97..122
    \/ cp \in 65..90
    \/ cp \in 192..255
    \/ cp \in Whitespace

\* re.match(r'^[a-zA-Z\u00C0-\u00FF\s]+$', name), for a name that was stripped
MatchesNamePattern(cps) ==
    /\ cps # <<>>
    /\ \A i \in 1..Len(cps) : InNameClass(cps[i])

validate_student_name(name) ==
    IF name = <<>> \/ StripName(name) = <<>> THEN NameEmptyMsg
    ELSE LET stripped == StripName(name)
         IN IF Len(stripped) < 3 THEN NameShortMsg
            ELSE IF Len(stripped) > 100 THEN NameLongMsg
            ELSE IF ~MatchesNamePattern(stripped) THEN NameCharsMsg
            ELSE "True"

MaxNameLen == 3

\* a, e with acute accent, space, the digit 1, the multiplication sign
NameAlphabet == {97, 233, 32, 49, 215}

NameInputs ==
    SeqsUpTo(NameAlphabet, MaxNameLen)
    \cup {[i \in 1..n |-> c] : n \in {99, 100, 101}, c \in {97, 49}}
    \cup {<<74, 111, 227, 111, 32, 83, 105, 108, 118, 97>>,
          <<74, 111, 227, 111, 49, 50, 51>>,
          <<32, 32, 97, 98, 32>>}

(* DriveValidator.validate_folder_id *)
FolderIdInputs ==
    FolderInputs
    \cup {"", "1abc123def456", "invalid@id", " 1abc ", "a/b", "folders/abc",
          "https://drive.google.com/drive/folders/1abc123def456",
          "https://drive.google.com/drive/folders/",
          "https://drive.google.com/drive/folders/abc?usp=sharing",
          "https://drive.google.com/drive/folders/ abc",
          "drive.google.com"}

(* FileValidator.validate_image_file *)
FileNotFoundMsg(file_path) == "Arquivo nao encontrado: " \o file_path

\* the start of the message, up to the extension; the list of extensions
\* that follows it is the same for every extension
InvalidExtensionMsg(file_ext) == "Extensao de arquivo invalida: " \o file_ext

valid_extensions == {".jpg", ".jpeg", ".png", ".bmp", ".tiff", ".webp"}

\* s.rfind(sub): highest position of sub in s, -1 when absent
PyRFind(s, sub) ==
    IF Contains(s, sub)
    THEN CHOOSE p \in 0..Len(s) :
            /\ OccursAt(s, sub, p)
            /\ \A q \in (p + 1)..Len(s) : ~OccursAt(s, sub, q)
    ELSE -1

\* os.path.splitext(p)[1]: from the last dot of the last component, unless
\* only dots precede it in that component
SplitExt(p) ==
    LET sepIndex == PyRFind(p, "/")
        dotIndex == PyRFind(p, ".")
    IN IF /\ dotIndex > sepIndex
          /\ \E q \in (sepIndex + 1)..(dotIndex - 1) :
                SubSeq(p, q + 1, q + 1) # "."
       THEN PySliceFrom(p, dotIndex)
       ELSE ""

UpperCase == "ABCDEFGHIJKLMNOPQRSTUVWXYZ"
LowerCase == "abcdefghijklmnopqrstuvwxyz"

\* s.lower(), for ASCII text
RECURSIVE PyLower(_)
PyLower(s) ==
    IF s = "" THEN ""
    ELSE LET c == SubSeq(s, 1, 1)
             p == PyFind(UpperCase, c)
         IN (IF p >= 0 THEN SubSeq(LowerCase, p + 1, p + 1) ELSE c)
            \o PyLower(PySliceFrom(s, 1))

\* a validate_image_file that compares the extension as written
validate_image_file_cased(file_path, exists) ==
    IF ~exists THEN FileNotFoundMsg(file_path)
    ELSE LET file_ext == SplitExt(file_path)
         IN IF file_ext \notin valid_extensions
            THEN InvalidExtensionMsg(file_ext)
            ELSE "True"

\* exists: what os.path.exists(file_path) answers
validate_image_file(file_path, exists) ==
    IF ~exists THEN FileNotFoundMsg(file_path)
    ELSE LET file_ext == PyLower(SplitExt(file_path))
         IN IF file_ext \notin valid_extensions
            THEN InvalidExtensionMsg(file_ext)
            ELSE "True"

ImagePaths ==
    {"a.jpg", "a.JPG", "a.Jpeg", "a.png", "a.bmp", "a.tiff", "a.WebP",
     "a.txt", "a.gif", "a", ".jpg", "..png", "a.tar.png", "a.jpg.txt",
     "d.png/a", "d/a.bmp", "nonexistent.jpg", "a."}

(* FileValidator.validate_file_size *)
\* the start of the message; the size and the limit follow it
FileTooLargeMsg == "Arquivo muito grande"

\* file_size_mb > max_size_mb, where file_size_mb = size / (1024 * 1024):
\* the division of a size below 2^53 by the power of two 2^20 is exact in
\* binary floating point, so the comparison is that of the exact quotient
SizeExceeds(size, max_size_mb) == size > max_size_mb * (1024 * 1024)

\* a validate_file_size that refuses a file of exactly the limit
validate_file_size_strict(file_path, exists, size, max_size_mb) ==
    IF ~exists THEN FileNotFoundMsg(file_path)
    ELSE IF size >= max_size_mb * (1024 * 1024) THEN FileTooLargeMsg
    ELSE "True"

\* size: what os.path.getsize(file_path) answers
validate_file_size(file_path, exists, size, max_size_mb) ==
    IF ~exists THEN FileNotFoundMsg(file_path)
    ELSE IF SizeExceeds(size, max_size_mb) THEN FileTooLargeMsg
    ELSE "True"

\* sizes in bytes around 1 MB and 10 MB, and the sizes of the tests
FileSizes ==
    {0, 1000, 1048575, 1048576, 1048577, 10485759, 10485760, 10485761,
     11534336}

MaxSizes == {0, 1, 10}

(***************************************************************************)
(* FileUtils.safe_filename                                                 *)
(***************************************************************************)
\* the characters of the class [<>:"/\\|?*]
InvalidChars == {"<", ">", ":", "\"", "/", "\\", "|", "?", "*"}

\* the characters \s and str.strip() take for blank, among those of the
\* inputs
BlankChars == {" ", "\t", "\n"}

CharAt(s, p) == SubSeq(s, p, p)

\* re.sub(invalid_chars, '_', s) on the characters lo..hi of s
RECURSIVE SubInvalid(_, _, _)
SubInvalid(s, lo, hi) ==
    IF lo > hi THEN ""
    ELSE IF lo = hi
         THEN (IF CharAt(s, lo) \in InvalidChars THEN "_" ELSE CharAt(s, lo))
         ELSE LET mid == (lo + hi) \div 2
              IN SubInvalid(s, lo, mid) \o SubInvalid(s, mid + 1, hi)

\* s.strip()
StripBlanks(s) ==
    LET kept == {p \in 1..Len(s) : CharAt(s, p) \notin BlankChars}
    IN IF kept = {} THEN "" ELSE SubSeq(s, SetMin(kept), SetMax(kept))

\* re.sub(r'\s+', '_', s) on the characters lo..hi of s: every maximal run
\* of blanks gives one underscore
RECURSIVE SubBlankRuns(_, _, _)
SubBlankRuns(s, lo, hi) ==
    IF lo > hi THEN ""
    ELSE IF lo = hi
         THEN (IF CharAt(s, lo) \notin BlankChars THEN CharAt(s, lo)
               ELSE IF lo > 1 /\ CharAt(s, lo - 1) \in BlankChars THEN ""
               ELSE "_")
         ELSE LET mid == (lo + hi) \div 2
              IN SubBlankRuns(s, lo, mid) \o SubBlankRuns(s, mid + 1, hi)

\* os.path.splitext(p)[0]
SplitExtRoot(p) == PySliceTo(p, Len(p) - Len(SplitExt(p)))

\* FileUtils.safe_filename
safe_filename(filename) ==
    LET subbed == SubInvalid(filename, 1, Len(filename))
        stripped == StripBlanks(subbed)
        clean_name == SubBlankRuns(stripped, 1, Len(stripped))
    IN IF Len(clean_name) > 255
       THEN LET name == SplitExtRoot(clean_name)
                ext == SplitExt(clean_name)
            IN PySliceTo(name, 255 - Len(ext)) \o ext
       ELSE clean_name

\* file names: plain ones, names with invalid characters and blanks, and
\* names around the limit of 255 characters, with and without extension
FilenameInputs ==
    {"", "relatorio.docx", " relatorio  final\t.docx ", "a<b>c:d\"e/f\\g|h?i*j",
     "\n \t", "a b", ".bashrc",
     Rep("a", 250) \o ".docx", Rep("a", 251) \o ".docx",
     Rep("a", 300), Rep("a b", 100) \o ".x", Rep("a", 256) \o ".",
     Rep(".", 256) \o "a", "a." \o Rep("b", 254), "a." \o Rep("b", 300),
     Rep("ab/", 90) \o ".tar.gz"}

(* one call of a validator or of safe_filename *)
ValArgs ==
    [validator : {"validate_theme"}, arg : [theme : ThemeInputs]]
    \cup [validator : {"validate_student_name"}, arg : [name : NameInputs]]
    \cup [validator : {"validate_folder_id"}, arg : [folder_id : FolderIdInputs]]
    \cup [validator : {"validate_image_file"},
          arg : [file_path : ImagePaths, exists : BOOLEAN]]
    \cup [validator : {"validate_file_size"},
          arg : [file_path : {"a.jpg"}, exists : BOOLEAN, size : FileSizes,
                 max_size_mb : MaxSizes]]
    \cup [validator : {"safe_filename"}, arg : [filename : FilenameInputs]]

ValInit ==
    /\ \E c \in ValArgs : validator = c.validator /\ arg = c.arg
    /\ outcome = "pending"
    /\ refill = FALSE
    /\ AiIdle
    /\ WalkIdle
    /\ ParIdle
    /\ XmlIdle
    /\ FillIdle
    /\ BatchIdle

ValidateTheme ==
    /\ validator = "validate_theme"
    /\ outcome = "pending"
    /\ outcome' = validate_theme(arg.theme)
    /\ UNCHANGED <<validator, arg, refill, parVars, xmlVars, fillVars, batchVars, aiVars, walkVars>>

ValidateStudentName ==
    /\ validator = "validate_student_name"
    /\ outcome = "pending"
    /\ outcome' = validate_student_name(arg.name)
    /\ UNCHANGED <<validator, arg, refill, parVars, xmlVars, fillVars, batchVars, aiVars, walkVars>>

ValidateFolderId ==
    /\ validator = "validate_folder_id"
    /\ outcome = "pending"
    /\ outcome' = folder_id_outcome(arg.folder_id)
    /\ UNCHANGED <<validator, arg, refill, parVars, xmlVars, fillVars, batchVars, aiVars, walkVars>>

ValidateImageFile ==
    /\ validator = "validate_image_file"
    /\ outcome = "pending"
    /\ outcome' = validate_image_file(arg.file_path, arg.exists)
    /\ UNCHANGED <<validator, arg, refill, parVars, xmlVars, fillVars, batchVars, aiVars, walkVars>>

ValidateFileSize ==
    /\ validator = "validate_file_size"
    /\ outcome = "pending"
    /\ outcome' = validate_file_size(arg.file_path, arg.exists, arg.size,
                                     arg.max_size_mb)
    /\ UNCHANGED <<validator, arg, refill, parVars, xmlVars, fillVars, batchVars, aiVars, walkVars>>

CallSafeFilename ==
    /\ validator = "safe_filename"
    /\ outcome = "pending"
    /\ outcome' = safe_filename(arg.filename)
    /\ UNCHANGED <<validator, arg, refill, parVars, xmlVars, fillVars, batchVars, aiVars, walkVars>>

ValNext == ValidateTheme \/ ValidateStudentName \/ ValidateFolderId
           \/ ValidateImageFile \/ ValidateFileSize \/ CallSafeFilename

SpecVal == ValInit /\ [][ValNext]_vars

(***************************************************************************)
(* Further properties of replace_text_in_xml_element                       *)
(***************************************************************************)
\* C12: processing a key of the map that does not occur in the concatenated
\* text of the element leaves every text node with the text it had, and the
\* call goes on to the next key without an error.
C12_SilentNoOp ==
    [][(/\ xpc = "loop"
        /\ ki < Len(substitutions)
        /\ ~Contains(full_text_buffer(text_nodes), substitutions[ki + 1][1]))
       => (/\ text_nodes' = text_nodes
           /\ ki' = ki + 1
           /\ xpc' = "loop")]_vars

C12_Witness ==
    /\ ki = 2
    /\ Len(xml_in) = 2
    /\ full_text_buffer(xml_in) # ""
    /\ ~Contains(full_text_buffer(xml_in), substitutions[1][1])
    /\ ~Contains(full_text_buffer(xml_in), substitutions[2][1])

(***************************************************************************)
(* Further properties of _process_drive_correction                         *)
(***************************************************************************)
\* the entries of the results list recorded for the file called name
EntriesFor(name) == {j \in 1..Len(results) : results[j].file = name}

\* those that carry the name of an uploaded report: upload_file is called
\* once, right before such an entry is appended
UploadsFor(name) == {j \in EntriesFor(name) : results[j].output # "None"}

C15_Stateless ==
    /\ [][template' = template]_vars
    /\ [](fpc = "returned" /\ result.kind = "BytesIO"
          => result.content = Substituted(template, BuildSubstituicoes(dados)))

C15_Witness ==
    /\ refill
    /\ fpc = "returned"
    /\ result.kind = "BytesIO"
    /\ result.content # template

(***************************************************************************)
(* Properties of the validators                                            *)
(***************************************************************************)
Validated(v) == validator = v /\ outcome # "pending"

\* C16: validate_theme returns True exactly when the stripped theme has 5 to
\* 200 characters; it raises with the 'empty' message when nothing is left
\* after stripping, with the 'at least 5' message for a shorter theme and
\* with the 'at most 200' message for a longer one.
C16_ThemeValidation ==
    Validated("validate_theme")
    => LET n == Len(PyStrip(arg.theme))
       IN /\ (outcome = "True") = (n >= 5 /\ n <= 200)
          /\ n = 0 => outcome = ThemeEmptyMsg
          /\ (n >= 1 /\ n < 5) => outcome = ThemeShortMsg
          /\ n > 200 => outcome = ThemeLongMsg

C16_Witness ==
    /\ Validated("validate_theme")
    /\ outcome = "True"
    /\ Len(arg.theme) > 200
    /\ Len(PyStrip(arg.theme)) = 200

\* the letters below U+0100
IsLetter(cp) ==
    \/ cp \in 65..90
    \/ cp \in 97..122
    \/ cp \in {170, 181, 186}
    \/ cp \in (192..255) \ {215, 247}

\* C17: validate_student_name returns True only for a name that, stripped,
\* has 3 to 100 characters, all of them letters or blanks; it raises with the
\* 'empty' message for an empty name, else with the 'at least 3' message for
\* a shorter one, else with the 'at most 100' message for a longer one, else
\* with the 'only letters and spaces' message when a character is neither a
\* letter nor a blank.
C17_NameValidation ==
    Validated("validate_student_name")
    => LET stripped == StripName(arg.name)
           n == Len(stripped)
           clean == \A i \in 1..n :
                        IsLetter(stripped[i]) \/ stripped[i] \in Whitespace
       IN /\ outcome = "True" => (n >= 3 /\ n <= 100 /\ clean)
          /\ n = 0 => outcome = NameEmptyMsg
          /\ (n >= 1 /\ n < 3) => outcome = NameShortMsg
          /\ n > 100 => outcome = NameLongMsg
          /\ (n >= 3 /\ n <= 100 /\ ~clean) => outcome = NameCharsMsg

\* C18: validate_folder_id returns True for an ID made of letters, digits,
\* '-' and '_' and for a drive.google.com URL with such an ID after
\* 'folders/'; it raises with the 'empty' message for a blank input, with the
\* 'invalid URL' message for a drive.google.com URL without an ID after
\* 'folders/', and with the 'invalid ID' message for any other input.
C18_FolderIdValidation ==
    Validated("validate_folder_id")
    => LET s == PyStrip(arg.folder_id)
           isUrl == Contains(s, "drive.google.com")
       IN /\ (~isUrl /\ IsBareId(s)) => outcome = "True"
          /\ (isUrl /\ HasFolderId(s)) => outcome = "True"
          /\ s = "" => outcome = FolderEmptyMsg
          /\ (isUrl /\ ~HasFolderId(s)) => outcome = FolderUrlMsg
          /\ (~isUrl /\ s # "" /\ ~IsBareId(s)) => outcome = FolderIdMsg

C18_Witness ==
    /\ Validated("validate_folder_id")
    /\ outcome = "True"
    /\ Contains(arg.folder_id, "folders/")
    /\ Contains(arg.folder_id, "?")

\* C19: validate_image_file raises 'file not found' for a path that does not
\* exist, whatever its extension; for an existing file it raises 'invalid
\* extension' when the extension in lower case is not .jpg, .jpeg, .png,
\* .bmp, .tiff or .webp, and returns True otherwise.
C19_ImageFileValidation ==
    Validated("validate_image_file")
    => IF ~arg.exists
       THEN outcome = FileNotFoundMsg(arg.file_path)
       ELSE IF PyLower(SplitExt(arg.file_path))
                 \in {".jpg", ".jpeg", ".png", ".bmp", ".tiff", ".webp"}
            THEN outcome = "True"
            ELSE Contains(outcome, "Extensao de arquivo invalida")

C19_Witness ==
    /\ Validated("validate_image_file")
    /\ outcome = "True"
    /\ SplitExt(arg.file_path) = ".JPG"

\* C20: validate_file_size raises 'file not found' for a missing file; for an
\* existing file it returns True when the size in bytes is at most
\* max_size_mb * 1024 * 1024, the limit included, and raises 'file too large'
\* when it is larger.
C20_FileSizeValidation ==
    Validated("validate_file_size")
    => IF ~arg.exists
       THEN outcome = FileNotFoundMsg(arg.file_path)
       ELSE /\ (outcome = "True")
                 = (arg.size <= arg.max_size_mb * 1024 * 1024)
            /\ arg.size > arg.max_size_mb * 1024 * 1024
                 => outcome = FileTooLargeMsg

C20_Witness ==
    /\ Validated("validate_file_size")
    /\ arg.exists
    /\ arg.max_size_mb = 10
    /\ arg.size = 10485760
    /\ outcome = "True"

(***************************************************************************)
(* Order of the matches and local offsets in replace_text_in_xml_element   *)
(***************************************************************************)
\* the occurrences of the first key in the text of the element as given
FirstKeyMatches == FindIter(full_text_buffer(xml_in), FirstKey)

\* C22: when a key occurs two or more times in the text of the element, its
\* occurrences being taken from the rightmost to the leftmost, every
\* occurrence ends up replaced by the value and the text between the
\* occurrences is unchanged.
C22_RightToLeft ==
    (ki = 1 /\ Len(FirstKeyMatches) >= 2)
    => full_text_buffer(text_nodes)
         = PyReplace(full_text_buffer(xml_in), FirstKey, FirstValue)

\* the rightmost occurrence of the first key, the first one to be processed
LastMatchStart == FirstKeyMatches[Len(FirstKeyMatches)]
LastMatchEnd == LastMatchStart + Len(FirstKey)
LastMatchNodes == nodes_involved(xml_in, LastMatchStart, LastMatchEnd)

\* C23: for an occurrence of a key, the offset that cuts the first involved
\* node is the match start minus the start of that node in the buffer, and
\* the offset that cuts the last involved node is the match end minus the
\* start of that node, whatever the other nodes hold; when the key occurs
\* once, the first node becomes its prefix + the value + the suffix of the
\* last node and every other involved node is blanked.
C23_LocalOffsets ==
    (ki = 1 /\ FirstKeyMatches # <<>> /\ LastMatchNodes # {})
    => LET fullbuf == full_text_buffer(xml_in)
           first == SetMin(LastMatchNodes)
           last == SetMax(LastMatchNodes)
           cut_first == LastMatchStart - TrueStart(xml_in, first)
           cut_last == LastMatchEnd - TrueStart(xml_in, last)
       IN /\ offset_in_first_node(fullbuf, xml_in, first, LastMatchStart)
               = cut_first
          /\ offset_in_last_node(fullbuf, xml_in, last, LastMatchEnd)
               = cut_last
          /\ Len(FirstKeyMatches) = 1
             => \A i \in LastMatchNodes :
                   text_nodes[i] =
                       IF i = first
                       THEN PySliceTo(xml_in[first], cut_first)
                            \o FirstValue
                            \o PySliceFrom(xml_in[last], cut_last)
                       ELSE ""

(***************************************************************************)
(* Temporary files and folder identifiers of _process_drive_correction     *)
(***************************************************************************)
\* C29: the temporary image file created for a file of the batch has been
\* deleted by the time the processing of that file ends, whether it succeeded
\* or failed.
C29_TempFilesDeleted ==
    \A i \in 1..idx : i \notin temp_files

\* the characters of s from position p (1-based) on that belong to the class
\* of folder identifiers
RECURSIVE IdRun(_, _)
IdRun(s, p) ==
    IF p <= Len(s) /\ IsIdChar(SubSeq(s, p, p))
    THEN SubSeq(s, p, p) \o IdRun(s, p + 1)
    ELSE ""

\* the folder identifier contained in what the user entered: the one that
\* follows "folders/" in a URL, or the bare identifier itself
EnteredFolderId(s) ==
    LET stripped == PyStrip(s)
    IN IF Contains(stripped, "folders/")
       THEN IdRun(stripped, PyFind(stripped, "folders/") + 9)
       ELSE stripped

\* C30: once both folder fields have been validated, the identifiers held
\* for list_files and upload_file are the folder identifiers contained in the
\* values the user entered.
C30_FolderIdsPassed ==
    (input_id # Unbound /\ output_id # Unbound)
    => /\ input_id = [kind |-> "str",
                      value |-> EnteredFolderId(batch_info.input_folder)]
       /\ output_id = [kind |-> "str",
                       value |-> EnteredFolderId(batch_info.output_folder)]

(***************************************************************************)
(* Properties of safe_filename                                             *)
(***************************************************************************)
\* the name after the two substitutions, before its length is limited
CleanedName(filename) ==
    LET stripped == StripBlanks(SubInvalid(filename, 1, Len(filename)))
    IN SubBlankRuns(stripped, 1, Len(stripped))

\* C26: the name safe_filename returns holds none of the characters
\* < > : " / \ | ? * and no blank, is at most 255 characters long, keeps the
\* extension when it had to be cut, and is returned unchanged by a second
\* application.
C26_SafeFilename ==
    Validated("safe_filename")
    => /\ \A p \in 1..Len(outcome) :
             CharAt(outcome, p) \notin InvalidChars \cup BlankChars
       /\ Len(outcome) <= 255
       /\ Len(CleanedName(arg.filename)) > 255
             => SplitExt(outcome) = SplitExt(CleanedName(arg.filename))
       /\ safe_filename(outcome) = outcome

(***************************************************************************)
(* EnhancedAIService (app/services/ai_service.py)                          *)
(*                                                                         *)
(* A value parsed from JSON is a record with a field kind. A dict is       *)
(* [kind |-> "dict", items |-> f], f a function from the keys present; a   *)
(* number carries its value in tenths, so that 150.5 is a float of 1505    *)
(* tenths and the int 200 is 2000 tenths.                                  *)
(***************************************************************************)
PyInt(n) == [kind |-> "int", tenths |-> 10 * n]
PyFloat(t) == [kind |-> "float", tenths |-> t]
PyBool(b) == [kind |-> "bool", tenths |-> IF b THEN 10 ELSE 0]
\* a value of which the model keeps the type only: "str", "list", "null",
\* the floats "nan", "inf" and "-inf", and "absent" for a key that is not there
PyValue(k) == [kind |-> k]
PyDict(f) == [kind |-> "dict", items |-> f]

\* isinstance(nota, (int, float))
IsIntOrFloat(nota) == nota.kind \in {"int", "float", "bool", "nan", "inf", "-inf"}

\* nota has a finite value
IsFinite(nota) == nota.kind \in {"int", "float", "bool"}

\* nota < 0
BelowZero(nota) == nota.kind = "-inf" \/ (IsFinite(nota) /\ nota.tenths < 0)

\* nota > 200
Above200(nota) == nota.kind = "inf" \/ (IsFinite(nota) /\ nota.tenths > 2000)

\* a clamp that only limits the score from above
ClampNotaUpper(nota) ==
    IF Above200(nota) THEN PyInt(200) ELSE nota

\* max(0, min(200, nota))
ClampNota(nota) ==
    IF Above200(nota) THEN PyInt(200)
    ELSE IF BelowZero(nota) THEN PyInt(0)
    ELSE nota

\* the value of nota after the two tests of the loop of _validar_notas
ValidNota(nota) ==
    LET numeric == IF ~IsIntOrFloat(nota) THEN PyInt(0) ELSE nota
    IN IF BelowZero(numeric) \/ Above200(numeric) THEN ClampNota(numeric)
       ELSE numeric

\* int(nota) raises for a NaN or an infinity
IntRaises(nota) == ~IsFinite(nota)

\* int(nota): the value cut towards zero
IntOf(nota) ==
    IF nota.tenths >= 0 THEN nota.tenths \div 10
    ELSE -((-nota.tenths) \div 10)

CompKeys == {"c1", "c2", "c3", "c4", "c5"}

\* the keys a reply may hold under analise_competencias, in a fixed order
AllCompKeys == <<"c1", "c2", "c3", "c4", "c5", "c6", "obs">>

\* {"nota": 0, "analise": ...}, of which the model keeps the score
DefaultComp == PyDict([k \in {"nota"} |-> PyInt(0)])

\* comp.setdefault("nota", 0)
SetDefaultNota(comp) ==
    IF "nota" \in DOMAIN comp.items THEN comp
    ELSE PyDict([k \in DOMAIN comp.items \cup {"nota"} |->
                    IF k = "nota" THEN PyInt(0) ELSE comp.items[k]])

\* the outcome of a helper: the value it returns, or the fact that it raised
Returns(v) == [raises |-> FALSE, value |-> v]
Raises == [raises |-> TRUE]

\* _garantir_estrutura: of the seven fields of the record the model keeps
\* nota_final and analise_competencias. dados.get raises on a value that is
\* not a dict, the test and the assignment of comps[comp_key] raise on
\* competencies that are not a dict, and comp.setdefault raises on a
\* competency that is not a dict
garantir_estrutura(d) ==
    IF d.kind # "dict" THEN Raises
    ELSE LET comps == Get(d.items, "analise_competencias", PyDict(EmptyDict))
         IN IF comps.kind # "dict" THEN Raises
            ELSE IF \E k \in CompKeys \cap DOMAIN comps.items :
                       comps.items[k].kind # "dict"
            THEN Raises
            ELSE Returns(PyDict(
                   [f \in {"nota_final", "analise_competencias"} |->
                      IF f = "nota_final"
                      THEN Get(d.items, "nota_final", PyInt(0))
                      ELSE PyDict(
                             [k \in DOMAIN comps.items \cup CompKeys |->
                                IF k \notin CompKeys THEN comps.items[k]
                                ELSE IF k \in DOMAIN comps.items
                                THEN SetDefaultNota(comps.items[k])
                                ELSE DefaultComp])]))

\* comp_key.startswith('c')
StartsWithC(k) == SubSeq(k, 1, 1) = "c"

\* the keys of competencias the loop of _validar_notas works on
NotaKeys(competencias) == {k \in DOMAIN competencias.items : StartsWithC(k)}

\* total: the sum of int(nota) over those keys
RECURSIVE TotalFrom(_, _)
TotalFrom(competencias, i) ==
    IF i > Len(AllCompKeys) THEN 0
    ELSE (IF AllCompKeys[i] \in NotaKeys(competencias)
          THEN IntOf(ValidNota(
                   Get(competencias.items[AllCompKeys[i]].items, "nota",
                       PyInt(0))))
          ELSE 0)
         + TotalFrom(competencias, i + 1)

\* resultado.get("nota_final", 0) == 0
NotaFinalIsZero(r) ==
    LET nf == Get(r.items, "nota_final", PyInt(0))
    IN IsFinite(nf) /\ nf.tenths = 0

\* _validar_notas: the record after the in-place updates. comp_data.get
\* raises on a competency that is not a dict, int(nota) on a NaN
validar_notas(r) ==
    LET competencias == Get(r.items, "analise_competencias", PyDict(EmptyDict))
        keys == NotaKeys(competencias)
    IN IF \E k \in keys : competencias.items[k].kind # "dict" THEN Raises
       ELSE IF \E k \in keys :
                  IntRaises(ValidNota(Get(competencias.items[k].items, "nota",
                                          PyInt(0))))
       THEN Raises
       ELSE LET validated ==
                   PyDict([k \in DOMAIN competencias.items |->
                       IF k \in keys
                       THEN PyDict([f \in DOMAIN competencias.items[k].items |->
                                IF f = "nota"
                                THEN ValidNota(competencias.items[k].items[f])
                                ELSE competencias.items[k].items[f]])
                       ELSE competencias.items[k]])
                total == TotalFrom(competencias, 1)
            IN Returns(PyDict(
                 [f \in DOMAIN r.items |->
                    IF f = "analise_competencias" THEN validated
                    ELSE IF f = "nota_final" /\ NotaFinalIsZero(r)
                    THEN PyInt(total)
                    ELSE r.items[f]]))

\* the scores a reply may give to a competency
NotaValues ==
    {PyInt(-5), PyInt(0), PyInt(160), PyInt(200), PyInt(201), PyInt(250),
     PyFloat(-5), PyFloat(1505), PyFloat(1999), PyFloat(2005),
     PyBool(TRUE), PyValue("nan"), PyValue("inf"), PyValue("-inf"),
     PyValue("str"), PyValue("null")}

\* a competency of a reply: a dict with or without a score, or a string
CompValues ==
    {PyDict([k \in {"nota"} |-> n]) : n \in NotaValues}
    \cup {PyDict(EmptyDict), PyValue("str")}

NotaDict(n) == PyDict([k \in {"nota"} |-> PyInt(n)])

\* a dict with the keys of choice that are not absent
DictOf(choice) ==
    PyDict([k \in {j \in DOMAIN choice : choice[j].kind # "absent"} |->
               choice[k]])

\* the analise_competencias of a reply: c1 varies over CompValues, c2 holds
\* 200 or 300, c3 to c5 hold 120 each, c6 holds 40, obs is a string; each
\* may be absent
CompetenciasValues ==
    {DictOf([k \in {"c1", "c2", "c3", "c4", "c5", "c6", "obs"} |->
               CASE k = "c1" -> c.c1
                 [] k = "c2" -> c.c2
                 [] k \in {"c3", "c4", "c5"} -> c.rest
                 [] k = "c6" -> c.c6
                 [] OTHER -> c.obs]) :
        c \in [c1 : CompValues \cup {PyValue("absent")},
               c2 : {PyValue("absent"), NotaDict(200), NotaDict(300)},
               rest : {PyValue("absent"), NotaDict(120)},
               c6 : {PyValue("absent"), NotaDict(40)},
               obs : {PyValue("absent"), PyValue("str")}]}

\* what json.loads may give for the reply of the model
ReplyValues ==
    {PyValue("list"), PyValue("null"), PyValue("str")}
    \cup {DictOf(d) :
            d \in [nota_final : {PyValue("absent"), PyInt(0), PyFloat(0),
                                 PyInt(640), PyInt(1000), PyValue("null")},
                   analise_competencias :
                       CompetenciasValues
                       \cup {PyValue("absent"), PyValue("null"),
                             PyValue("list")}]}

(***************************************************************************)
(* Specification of one call of analisar_redacao                           *)
(***************************************************************************)
Prompts == {"", "  ", "Corrija a redacao. {{REFERENCIAS}}"}

\* what a step of the call may raise before any handler has seen it
RawErrors == {"ValueError", "OSError", "IAException"}

AiInit ==
    /\ ai_initialized \in BOOLEAN
    /\ caminho_imagem \in [exists : BOOLEAN]
    /\ prompt \in Prompts
    /\ resultado = Unbound
    /\ resultado_padronizado = Unbound
    /\ ai_outcome = Pending
    /\ apc = "init"
    /\ WalkIdle
    /\ refill = FALSE
    /\ ParIdle
    /\ ValIdle
    /\ XmlIdle
    /\ FillIdle
    /\ BatchIdle

\* the except clause of configurar_ia
ConfigurarIaHandler(e) == "IAException"

\* the except clause of _carregar_imagem
CarregarImagemHandler(e) == "IAException"

\* the except clause of _realizar_analise, which also takes the IAException
\* raised inside its own try block
RealizarAnaliseHandler(e) == "IAException"

\* the except clause of _processar_resultado
ProcessarResultadoHandler(e) == "IAException"

\* handlers that log the failure and return None
AnalisarHandlerNone(e) == [kind |-> "return", value |-> PyNone]

\* the three except clauses of analisar_redacao
AnalisarHandler(e) ==
    [kind |-> "raise",
     type |-> IF e = "ValidationException" THEN e
              ELSE IF e = "IAException" THEN e
              ELSE "IAException"]

\* the call ends with the exception e reaching the handlers of
\* analisar_redacao
AiRaise(e) ==
    /\ ai_outcome' = AnalisarHandler(e)
    /\ apc' = "done"

\* self._ensure_initialized()
AiEnsureInitialized ==
    /\ apc = "init"
    /\ IF ai_initialized
       THEN /\ apc' = "exists"
            /\ UNCHANGED <<ai_initialized, ai_outcome>>
       ELSE \/ /\ ai_initialized' = TRUE
               /\ apc' = "exists"
               /\ UNCHANGED ai_outcome
            \/ /\ \E e \in RawErrors : AiRaise(ConfigurarIaHandler(e))
               /\ UNCHANGED ai_initialized
    /\ UNCHANGED <<caminho_imagem, prompt, resultado, resultado_padronizado,
                   refill, parVars, valVars, xmlVars, fillVars, batchVars, walkVars>>

\* if not os.path.exists(caminho_imagem): raise ValidationException(...)
AiCheckImage ==
    /\ apc = "exists"
    /\ IF ~caminho_imagem.exists
       THEN AiRaise("ValidationException")
       ELSE /\ apc' = "prompt"
            /\ UNCHANGED ai_outcome
    /\ UNCHANGED <<ai_initialized, caminho_imagem, prompt, resultado,
                   resultado_padronizado, refill, parVars, valVars, xmlVars,
                   fillVars, batchVars, walkVars>>

\* if not prompt or not prompt.strip(): raise ValidationException(...);
\* _buscar_referencias catches whatever the search raises, and the replace
\* of {{REFERENCIAS}} cannot fail
AiCheckPrompt ==
    /\ apc = "prompt"
    /\ IF prompt = "" \/ PyStrip(prompt) = ""
       THEN AiRaise("ValidationException")
       ELSE /\ apc' = "image"
            /\ UNCHANGED ai_outcome
    /\ UNCHANGED <<ai_initialized, caminho_imagem, prompt, resultado,
                   resultado_padronizado, refill, parVars, valVars, xmlVars,
                   fillVars, batchVars, walkVars>>

\* imagem = self._carregar_imagem(caminho_imagem)
AiLoadImage ==
    /\ apc = "image"
    /\ \/ /\ apc' = "analyse"
          /\ UNCHANGED ai_outcome
       \/ \E e \in RawErrors : AiRaise(CarregarImagemHandler(e))
    /\ UNCHANGED <<ai_initialized, caminho_imagem, prompt, resultado,
                   resultado_padronizado, refill, parVars, valVars, xmlVars,
                   fillVars, batchVars, walkVars>>

\* resultado = self._realizar_analise(imagem, prompt_com_referencias): the
\* call of the model fails, the reply is empty or is not JSON, or the parsed
\* value is returned
AiAnalyse ==
    /\ apc = "analyse"
    /\ \/ /\ \E v \in ReplyValues : resultado' = v
          /\ apc' = "structure"
          /\ UNCHANGED ai_outcome
       \/ /\ \E e \in RawErrors \cup {"JSONDecodeError"} :
                AiRaise(RealizarAnaliseHandler(e))
          /\ UNCHANGED resultado
    /\ UNCHANGED <<ai_initialized, caminho_imagem, prompt,
                   resultado_padronizado, refill, parVars, valVars, xmlVars,
                   fillVars, batchVars, walkVars>>

\* resultado_padronizado = self._garantir_estrutura(resultado), inside the
\* try block of _processar_resultado
AiGarantirEstrutura ==
    /\ apc = "structure"
    /\ LET g == garantir_estrutura(resultado)
       IN IF g.raises
          THEN /\ AiRaise(ProcessarResultadoHandler("AttributeError"))
               /\ UNCHANGED resultado_padronizado
          ELSE /\ resultado_padronizado' = g.value
               /\ apc' = "notas"
               /\ UNCHANGED ai_outcome
    /\ UNCHANGED <<ai_initialized, caminho_imagem, prompt, resultado, refill,
                   parVars, valVars, xmlVars, fillVars, batchVars, walkVars>>

\* self._validar_notas(resultado_padronizado), inside the same try block;
\* the record of a call that raised is dropped with the frame
AiValidarNotas ==
    /\ apc = "notas"
    /\ LET v == validar_notas(resultado_padronizado)
       IN IF v.raises
          THEN /\ AiRaise(ProcessarResultadoHandler("ValueError"))
               /\ UNCHANGED resultado_padronizado
          ELSE /\ resultado_padronizado' = v.value
               /\ apc' = "return"
               /\ UNCHANGED ai_outcome
    /\ UNCHANGED <<ai_initialized, caminho_imagem, prompt, resultado, refill,
                   parVars, valVars, xmlVars, fillVars, batchVars, walkVars>>

\* return resultado_processado
AiReturn ==
    /\ apc = "return"
    /\ ai_outcome' = [kind |-> "return", value |-> resultado_padronizado]
    /\ apc' = "done"
    /\ UNCHANGED <<ai_initialized, caminho_imagem, prompt, resultado,
                   resultado_padronizado, refill, parVars, valVars, xmlVars,
                   fillVars, batchVars, walkVars>>

AiNext == AiEnsureInitialized \/ AiCheckImage \/ AiCheckPrompt \/ AiLoadImage
          \/ AiAnalyse \/ AiGarantirEstrutura \/ AiValidarNotas \/ AiReturn

SpecAI == AiInit /\ [][AiNext]_vars

(***************************************************************************)
(* Properties of analisar_redacao                                          *)
(***************************************************************************)
\* C21: a finished call of analisar_redacao has returned a record or raised
\* IAException or ValidationException, whichever step failed: it has not
\* returned None and no other exception type has escaped. A
\* ValidationException stands for a missing image or an empty prompt.
C21_TwoOutcomes ==
    apc = "done"
    => /\ \/ /\ ai_outcome.kind = "return"
             /\ ai_outcome.value.kind = "dict"
          \/ /\ ai_outcome.kind = "raise"
             /\ ai_outcome.type \in {"IAException", "ValidationException"}
       /\ (ai_outcome.kind = "raise" /\ ai_outcome.type = "ValidationException")
             => (~caminho_imagem.exists \/ PyStrip(prompt) = "")
       /\ (resultado # Unbound /\ resultado.kind # "dict")
             => (ai_outcome.kind = "raise" /\ ai_outcome.type = "IAException")

C21_Witness ==
    /\ apc = "done"
    /\ resultado = PyValue("list")
    /\ ai_outcome = [kind |-> "raise", type |-> "IAException"]

\* the scores of c1..c5 of a record
ScoresOf(r) ==
    [k \in CompKeys |-> r.items["analise_competencias"].items[k].items["nota"]]

\* _validar_notas has run to its end on the record
NotasValidated == apc = "return" \/ (apc = "done" /\ ai_outcome.kind = "return")

\* C25: when _validar_notas has run on a record, each score of c1..c5 is a
\* number between 0 and 200: 0 where the score was not a number or was
\* below 0, 200 where it was above 200, and the score itself where it was
\* in the range.
C25_ScoreClamping ==
    NotasValidated
    => LET before == ScoresOf(garantir_estrutura(resultado).value)
           after == ScoresOf(resultado_padronizado)
       IN \A k \in CompKeys :
             /\ after[k].kind \in {"int", "float", "bool"}
             /\ after[k].tenths >= 0
             /\ after[k].tenths <= 2000
             /\ before[k].kind \in {"str", "null"} => after[k] = PyInt(0)
             /\ before[k].kind \in {"int", "float", "bool"}
                   => /\ before[k].tenths < 0 => after[k] = PyInt(0)
                      /\ before[k].tenths > 2000 => after[k] = PyInt(200)
                      /\ (before[k].tenths >= 0 /\ before[k].tenths <= 2000)
                            => after[k] = before[k]
             /\ before[k].kind = "inf" => after[k] = PyInt(200)
             /\ before[k].kind = "-inf" => after[k] = PyInt(0)

C25_Witness ==
    /\ apc = "return"
    /\ ScoresOf(garantir_estrutura(resultado).value)["c1"] = PyInt(-5)
    /\ ScoresOf(garantir_estrutura(resultado).value)["c2"] = PyInt(300)
    /\ ScoresOf(resultado_padronizado)["c1"] = PyInt(0)
    /\ ScoresOf(resultado_padronizado)["c2"] = PyInt(200)

\* C27: the nota_final of the record analisar_redacao returns is the sum of
\* its five scores, whatever nota_final the reply held.
C27_NotaFinalIsSum ==
    (apc = "done" /\ ai_outcome.kind = "return")
    => LET after == ScoresOf(ai_outcome.value)
           nota_final == ai_outcome.value.items["nota_final"]
       IN /\ nota_final.kind \in {"int", "float"}
          /\ nota_final.tenths
               = after["c1"].tenths + after["c2"].tenths + after["c3"].tenths
                 + after["c4"].tenths + after["c5"].tenths

(***************************************************************************)
(* The paragraphs reached by the paragraph-level preencher_e_gerar_docx    *)
(* (services/report_service.py) and by analisar_documento                  *)
(* (scripts/debug_template.py)                                             *)
(*                                                                         *)
(* A paragraph is named by the region that holds it: the body, a cell of a *)
(* table of the body, a cell of a table nested in such a cell, and for a   *)
(* section its header, a cell of a table of its header, its footer, and a  *)
(* cell of a table of its footer.                                          *)
(***************************************************************************)
BodyRegions == {"body", "cell", "nested_cell"}
SectionRegions == {"header", "header_cell", "footer", "footer_cell"}

\* the paragraphs a document of n sections may hold
ParagraphsOf(n) ==
    [region : BodyRegions, section : {0}]
    \cup [region : SectionRegions, section : 1..n]

\* the files: a document has at least one section
WalkDocs ==
    {[unreadable |-> TRUE]}
    \cup UNION {[sections : {n}, paragraphs : SUBSET ParagraphsOf(n)] :
                   n \in 1..MaxSections}

Readable(d) == "paragraphs" \in DOMAIN d

\* document.paragraphs: the paragraphs directly in the body
document_paragraphs(d) == {p \in d.paragraphs : p.region = "body"}

\* for table in document.tables: for row in table.rows: for cell in
\* row.cells: cell.paragraphs -- the tables directly in the body, and the
\* paragraphs directly in their cells
document_tables_paragraphs(d) == {p \in d.paragraphs : p.region = "cell"}

\* section.header.paragraphs and the cell paragraphs of section.header.tables
header_paragraphs(d, n) ==
    {p \in d.paragraphs :
        p.section = n /\ p.region \in {"header", "header_cell"}}

WalkInit ==
    /\ walker \in {"preencher_e_gerar_docx", "analisar_documento"}
    /\ walk_doc \in WalkDocs
    /\ visited = {}
    /\ wsec = 0
    /\ wpc = "load"
    /\ refill = FALSE
    /\ ParIdle
    /\ ValIdle
    /\ AiIdle
    /\ XmlIdle
    /\ FillIdle
    /\ BatchIdle

\* document = Document(...): both functions give up on a file that cannot
\* be opened
WalkLoad ==
    /\ wpc = "load"
    /\ wpc' = IF Readable(walk_doc) THEN "paragraphs" ELSE "failed"
    /\ UNCHANGED <<walker, walk_doc, visited, wsec, refill, parVars, valVars,
                   aiVars, xmlVars, fillVars, batchVars>>

\* for paragrafo in document.paragraphs: ... (either function)
WalkParagraphs ==
    /\ wpc = "paragraphs"
    /\ visited' = visited \cup document_paragraphs(walk_doc)
    /\ wpc' = "tables"
    /\ UNCHANGED <<walker, walk_doc, wsec, refill, parVars, valVars, aiVars,
                   xmlVars, fillVars, batchVars>>

\* for tabela in document.tables: ... (either function); the filler then
\* saves the document, the scanner goes on to the sections
WalkTables ==
    /\ wpc = "tables"
    /\ visited' = visited \cup document_tables_paragraphs(walk_doc)
    /\ wpc' = IF walker = "analisar_documento" THEN "sections" ELSE "done"
    /\ UNCHANGED <<walker, walk_doc, wsec, refill, parVars, valVars, aiVars,
                   xmlVars, fillVars, batchVars>>

\* for section in document.sections: the header of the section
\* (analisar_documento only)
WalkSectionHeader ==
    /\ wpc = "sections"
    /\ wsec < walk_doc.sections
    /\ visited' = visited \cup header_paragraphs(walk_doc, wsec + 1)
    /\ wsec' = wsec + 1
    /\ UNCHANGED <<walker, walk_doc, wpc, refill, parVars, valVars, aiVars,
                   xmlVars, fillVars, batchVars>>

\* the loop over the sections is exhausted
WalkSectionsEnd ==
    /\ wpc = "sections"
    /\ wsec = walk_doc.sections
    /\ wpc' = "done"
    /\ UNCHANGED <<walker, walk_doc, visited, wsec, refill, parVars, valVars,
                   aiVars, xmlVars, fillVars, batchVars>>

WalkNext == WalkLoad \/ WalkParagraphs \/ WalkTables \/ WalkSectionHeader
            \/ WalkSectionsEnd

SpecWalk == WalkInit /\ [][WalkNext]_vars

\* C24: when the walk of a document is over, every paragraph of the
\* document has been visited: those of the body, of the table cells, nested
\* tables included, and of the headers and footers of every section and of
\* their tables.
C24_RegionsComplete ==
    wpc = "done" => visited = walk_doc.paragraphs

====
